---------------------------- MODULE Spec2Model ----------------------------
(***************************************************************************)
(* libbyreads: main.py.  One run of main(): the Goodreads export is        *)
(* filtered to the "to-read" shelf, titles are simplified, one SearchRow   *)
(* is built per (book, library), a ThreadPool maps find_book_at_lib over   *)
(* the rows with pool.imap, the main thread collects the results, the      *)
(* pool is closed and joined and results.csv is written.                   *)
(*                                                                         *)
(* Strings the code inspects character by character (titles, authors,      *)
(* queries) are sequences of one-character strings.  A rendered page is a  *)
(* sequence of text fragments; `marker in page.text` is modelled by        *)
(* InText, which looks for the marker inside every fragment.               *)
(***************************************************************************)
EXTENDS Naturals, Sequences, FiniteSets

(***************************************************************************)
(* Bounds of the model.                                                    *)
(***************************************************************************)
MaxRows == 3
MaxThreads == 2
MaxListed == 2
MaxPageLen == 5
MaxTitleLen == 4

BoundedSeq(S, n) == UNION {[1..m -> S] : m \in 0..n}

Range(s) == {s[i] : i \in DOMAIN s}

(***************************************************************************)
(* The library table of main(), in dict (insertion) order.                 *)
(***************************************************************************)
libs ==
    << [lib_name |-> "hawaii",    lib_url |-> "https://libbyapp.com/library/hawaii"],
       [lib_name |-> "utah",      lib_url |-> "https://libbyapp.com/library/beehive"],
       [lib_name |-> "livermore", lib_url |-> "https://libbyapp.com/library/livermore"] >>

LibNames == {libs[i].lib_name : i \in DOMAIN libs}

(***************************************************************************)
(* AvailabilityType: the four enum values.                                 *)
(***************************************************************************)
AvailabilityType == {"AVAILABLE", "OWNED", "DEVOID", "ERROR"}

(***************************************************************************)
(* Inputs: the rows of the Goodreads export.                               *)
(***************************************************************************)
SampleTitles ==
    { <<"a">>,
      <<"a", " ", "(", "b", ")">>,
      <<"b", " ", ":", " ", "a">> }

SampleAuthors == { <<"x">>, <<"y", " ", "z">> }

Shelves == {"to-read", "currently-reading", "read"}

\* the rows an export is drawn from when the task generator is checked
ListedRows ==
    [Title : SampleTitles, Author : SampleAuthors, Exclusive_Shelf : Shelves]

\* the export file of a whole run is a prefix of this one
SampleExport ==
    << [Title |-> <<"a">>, Author |-> <<"x">>,
        Exclusive_Shelf |-> "currently-reading"],
       [Title |-> <<"a", " ", "(", "b", ")">>, Author |-> <<"x">>,
        Exclusive_Shelf |-> "to-read"],
       [Title |-> <<"b", " ", ":", " ", "a">>, Author |-> <<"y", " ", "z">>,
        Exclusive_Shelf |-> "read"],
       [Title |-> <<"b">>, Author |-> <<"x">>,
        Exclusive_Shelf |-> "currently-reading"] >>

(***************************************************************************)
(* Rendered page text: fragments.  "Borrowed" contains the marker          *)
(* "Borrow"; "borrow" does not (the test is case sensitive).               *)
(***************************************************************************)
Markers == {"No results.", "Borrow", "Place Hold", "Play Sample", "Read Sample"}

Fragments == Markers \cup {"Borrowed", "borrow"}

\* marker is a substring of the fragment
FragmentHas(frag, marker) ==
    \/ frag = marker
    \/ frag = "Borrowed" /\ marker = "Borrow"

\* `marker in page.text`
InText(marker, text) == \E i \in DOMAIN text : FragmentHas(text[i], marker)

\* what each library's catalog renders in a run
SampleWeb ==
    [n \in LibNames |->
        IF n = "hawaii" THEN <<"No results.", "Borrow", "Play Sample">>
        ELSE IF n = "utah" THEN <<"borrow", "Borrowed", "Read Sample">>
        ELSE <<"Place Hold", "borrow">>]

(***************************************************************************)
(* parse_want_to_read_from_goodreads_export: the rows on the "to-read"     *)
(* shelf, in file order.                                                   *)
(***************************************************************************)
parse_all(all_books) == all_books

RECURSIVE parse_want_to_read(_)
parse_want_to_read(all_books) ==
    IF all_books = << >> THEN << >>
    ELSE LET row == Head(all_books)
             rest == parse_want_to_read(Tail(all_books))
         IN IF row.Exclusive_Shelf = "to-read" THEN <<row>> \o rest ELSE rest

(***************************************************************************)
(* simplify_title: re.split(":|\(", title)[0].strip()                      *)
(***************************************************************************)
Separators == {":", "("}

Whitespace == {" "}

\* re.split(...)[0]: the text before the first separator
SplitFirst(title) ==
    LET seps == {i \in DOMAIN title : title[i] \in Separators}
    IN IF seps = {} THEN title
       ELSE SubSeq(title, 1, (CHOOSE i \in seps : \A j \in seps : i <= j) - 1)

\* str.strip()
Strip(s) ==
    LET ink == {i \in DOMAIN s : s[i] \notin Whitespace}
    IN IF ink = {} THEN << >>
       ELSE SubSeq(s, CHOOSE i \in ink : \A j \in ink : i <= j,
                      CHOOSE i \in ink : \A j \in ink : i >= j)

simplify_title_strip_first(title) == SplitFirst(Strip(title))

simplify_title(title) == Strip(SplitFirst(title))

(***************************************************************************)
(* urllib.parse.quote on the characters used here: letters stay, the       *)
(* space, colon and parentheses are percent-encoded.                       *)
(***************************************************************************)
QuoteChar(c) ==
    IF c = " " THEN <<"%", "2", "0">>
    ELSE IF c = ":" THEN <<"%", "3", "A">>
    ELSE IF c = "(" THEN <<"%", "2", "8">>
    ELSE IF c = ")" THEN <<"%", "2", "9">>
    ELSE <<c>>

RECURSIVE quote(_)
quote(s) == IF s = << >> THEN << >> ELSE QuoteChar(Head(s)) \o quote(Tail(s))

(***************************************************************************)
(* main, lines 162-163: every to-read book gets its title simplified.      *)
(***************************************************************************)
SimplifyTitles(want) ==
    [i \in DOMAIN want |-> [want[i] EXCEPT !.Title = simplify_title(want[i].Title)]]

(***************************************************************************)
(* main, lines 173-179: the SearchRow of one book at one library.          *)
(***************************************************************************)
SearchRow(book, lib) ==
    LET query == book.Title \o <<" ">> \o book.Author
        url_safe_query == quote(query)
    IN [lib_name   |-> lib.lib_name,
        search_url |-> <<lib.lib_url, "/search/query-", url_safe_query, "/page-1">>,
        title      |-> book.Title,
        author     |-> book.Author]

(***************************************************************************)
(* main, lines 171-180: books in list order, for each book the libraries   *)
(* in table order.                                                         *)
(***************************************************************************)
RECURSIVE RowsForBook(_, _)
RowsForBook(book, ls) ==
    IF ls = << >> THEN << >>
    ELSE <<SearchRow(book, Head(ls))>> \o RowsForBook(book, Tail(ls))

RECURSIVE BuildSearchRows(_)
BuildSearchRows(want) ==
    IF want = << >> THEN << >>
    ELSE RowsForBook(Head(want), libs) \o BuildSearchRows(Tail(want))

(***************************************************************************)
(* SearchResult declares audiobook and ebook as str and is given booleans. *)
(* main.py pins no pydantic version.  pydantic 1.x coerces the booleans to *)
(* "True" / "False"; pydantic 2.x rejects them and SearchResult(...)       *)
(* raises ValidationError.                                                 *)
(***************************************************************************)
Pydantics == {"1.x", "2.x"}

StrOfBool(b) == IF b THEN "True" ELSE "False"

(***************************************************************************)
(* find_book_at_lib, lines 105-129: classification of the rendered text.   *)
(***************************************************************************)
AvailBorrowFirst(text) ==
    IF InText("Borrow", text) THEN "AVAILABLE"
    ELSE IF InText("No results.", text) THEN "DEVOID"
    ELSE IF InText("Place Hold", text) THEN "OWNED"
    ELSE "ERROR"

Avail(text) ==
    IF InText("No results.", text) THEN "DEVOID"
    ELSE IF InText("Borrow", text) THEN "AVAILABLE"
    ELSE IF InText("Place Hold", text) THEN "OWNED"
    ELSE "ERROR"

ClassifyGated(search_row, text) ==
    [title      |-> search_row.title,
     author     |-> search_row.author,
     lib_name   |-> search_row.lib_name,
     avail      |-> Avail(text),
     audiobook  |-> StrOfBool(Avail(text) # "DEVOID" /\ InText("Play Sample", text)),
     ebook      |-> StrOfBool(Avail(text) # "DEVOID" /\ InText("Read Sample", text)),
     search_url |-> search_row.search_url]

Classify(search_row, text) ==
    [title      |-> search_row.title,
     author     |-> search_row.author,
     lib_name   |-> search_row.lib_name,
     avail      |-> Avail(text),
     audiobook  |-> StrOfBool(InText("Play Sample", text)),
     ebook      |-> StrOfBool(InText("Read Sample", text)),
     search_url |-> search_row.search_url]

\* lines 105-129 for a rendered text: what the call of find_book_at_lib ends
\* in, as the item the pool sends for it: (True, result) or (False, exc)
Returned(installed, search_row, text) ==
    IF installed = "2.x"
    THEN <<FALSE, "ValidationError">>
    ELSE <<TRUE, Classify(search_row, text)>>

\* SearchResult.to_csv_row: the field values in declaration order
to_csv_row(r) ==
    <<r.title, r.author, r.lib_name, r.avail, r.audiobook, r.ebook, r.search_url>>

(***************************************************************************)
(* State.                                                                  *)
(***************************************************************************)
VARIABLES
    pc,                 \* where main() is
    export,             \* rows of the Goodreads export file
    processes,          \* ThreadPool(processes=...)
    web,                \* what each library's catalog renders
    want_to_read,       \* main: the to-read books, titles simplified
    search_rows,        \* main: the SearchRows handed to pool.imap
    taken,              \* number of tasks the workers took off the task queue
    running,            \* per worker thread: the task it executes, 0 when idle
    step,               \* per worker thread: "idle", or where it is in find_book_at_lib
    driver,             \* per worker thread: find_book_at_lib's local `driver`
    threadLocal,        \* per thread slot: the_driver, 0 for None
    engines,            \* the browsers started: owner thread, loaded page, times quit
    outcome,            \* per task: << >>, or the (success, value) item its worker sent
    last_sent,          \* the task whose item was sent most recently, 0 before the first
    delivered,          \* task indexes in the order the imap iterator yielded them
    results,            \* main: results
    requests_finished,  \* main: requests_finished
    progress,           \* the progress bar's task: total and completed
    exited,             \* worker threads that have ended
    csvfile,            \* rows of results.csv, << >> while it is not written
    page_text,          \* classifier on its own: the rendered text
    classified,         \* classifier on its own: << >>, or <<what the call ended in>>
    raw_title,          \* title simplifier on its own: the title given
    simplified,         \* title simplifier on its own: the outputs so far
    pydantic            \* the pydantic that `from pydantic import BaseModel` finds

vars ==
    <<pc, export, processes, web, want_to_read, search_rows, taken, running,
      step, driver, threadLocal, engines, outcome, last_sent, delivered, results,
      requests_finished, progress, exited, csvfile, page_text, classified,
      raw_title, simplified, pydantic>>

Workers == 1..processes

Tasks == 1..Len(search_rows)

NoItem == << >>

(***************************************************************************)
(* The state when main() is entered: nothing read, no pool.                *)
(***************************************************************************)
Fresh ==
    /\ want_to_read = << >>
    /\ search_rows = << >>
    /\ taken = 0
    /\ running = [w \in 1..processes |-> 0]
    /\ step = [w \in 1..processes |-> "idle"]
    /\ driver = [w \in 1..processes |-> 0]
    /\ threadLocal = [w \in 1..processes |-> 0]
    /\ engines = << >>
    /\ outcome = << >>
    /\ last_sent = 0
    /\ delivered = << >>
    /\ results = << >>
    /\ requests_finished = 0
    /\ progress = [total |-> 0, completed |-> 0]
    /\ exited = {}
    /\ csvfile = << >>
    /\ classified = << >>
    /\ simplified = << >>

Init ==
    /\ pc = "start"
    /\ export \in {SubSeq(SampleExport, 1, m) : m \in 0..MaxRows}
    /\ processes \in 1..MaxThreads
    /\ web = SampleWeb
    /\ page_text = << >>
    /\ raw_title = << >>
    /\ pydantic \in Pydantics
    /\ Fresh

(***************************************************************************)
(* main, lines 161-180: read the export, simplify the titles, build the    *)
(* search rows.                                                            *)
(***************************************************************************)
Generate ==
    /\ pc = "start"
    /\ want_to_read' = SimplifyTitles(parse_want_to_read(export))
    /\ search_rows' = BuildSearchRows(want_to_read')
    /\ pc' = "generated"
    /\ UNCHANGED <<export, processes, web, taken, running, step, driver,
                   threadLocal, engines, outcome, last_sent, delivered, results,
                   requests_finished, progress, exited, csvfile, page_text,
                   classified, raw_title,
                   simplified, pydantic>>

(***************************************************************************)
(* main, lines 182-188: the pool is created, the progress task is added    *)
(* and pool.imap submits every search row, in order.                       *)
(***************************************************************************)
StartPool ==
    /\ pc = "generated"
    /\ progress' = [total |-> Len(search_rows), completed |-> 0]
    /\ results' = << >>
    /\ requests_finished' = 0
    /\ outcome' = [t \in Tasks |-> NoItem]
    /\ pc' = "loop"
    /\ UNCHANGED <<export, processes, web, want_to_read, search_rows, taken,
                   running, step, driver, threadLocal, engines, last_sent,
                   delivered, exited, csvfile, page_text, classified, raw_title,
                   simplified, pydantic>>

(***************************************************************************)
(* threading.local(): an attribute set by one thread is seen by that       *)
(* thread only, so every worker has a slot of its own.                     *)
(***************************************************************************)
SharedSlot(w) == CHOOSE s \in Workers : \A x \in Workers : s <= x

ThreadSlot(w) == w

(***************************************************************************)
(* create_driver, line 49: the thread has no driver yet.                   *)
(***************************************************************************)
NeedsDriverAlways(w) == TRUE

NeedsDriver(w) == threadLocal[ThreadSlot(w)] = 0

(***************************************************************************)
(* The task queue hands out the search rows in submission order.           *)
(***************************************************************************)
NextTaskAgain == IF taken = 0 THEN 1 ELSE taken

NextTaskNewest == Len(search_rows) - taken

NextTask == taken + 1

\* the worker sends item for task t: it reaches the pool's result queue
Send(t, item) ==
    /\ outcome' = [outcome EXCEPT ![t] = item]
    /\ last_sent' = t

(***************************************************************************)
(* The pool's worker threads are daemon threads fed from the task queue.   *)
(* They run from ThreadPool(...) until the pool is closed; an exception    *)
(* that leaves main() does not stop them.                                  *)
(***************************************************************************)
WorkersRun == pc \in {"loop", "aborted"}

(***************************************************************************)
(* An idle pool worker takes the next task off the task queue.  It has not *)
(* entered create_driver yet: other threads run in between.                *)
(***************************************************************************)
WorkerTake(w) ==
    /\ WorkersRun
    /\ w \notin exited
    /\ step[w] = "idle"
    /\ taken < Len(search_rows)
    /\ taken' = taken + 1
    /\ running' = [running EXCEPT ![w] = NextTask]
    /\ step' = [step EXCEPT ![w] = "start"]
    /\ UNCHANGED <<pc, export, processes, web, want_to_read, search_rows,
                   driver, threadLocal, engines, outcome, last_sent,
                   delivered, results, requests_finished, progress, exited,
                   csvfile, page_text, classified, raw_title,
                   simplified, pydantic>>

(***************************************************************************)
(* find_book_at_lib, lines 99-101: create_driver() reuses the thread's     *)
(* driver or starts a browser.  Starting the browser can raise; the worker *)
(* then sends (False, exc) for the task and is idle again, the thread      *)
(* still without a driver.                                                 *)
(***************************************************************************)
WorkerStart(w) ==
    /\ WorkersRun
    /\ step[w] = "start"
    /\ IF NeedsDriver(w)
       THEN \/ /\ engines' = Append(engines,
                                    [owner |-> w, page_source |-> << >>, quits |-> 0])
               /\ threadLocal' = [threadLocal EXCEPT ![ThreadSlot(w)] = Len(engines) + 1]
               /\ driver' = [driver EXCEPT ![w] = Len(engines) + 1]
               /\ step' = [step EXCEPT ![w] = "get"]
               /\ UNCHANGED <<running, outcome, last_sent>>
            \/ /\ Send(running[w], <<FALSE, "SessionCreationError">>)
               /\ running' = [running EXCEPT ![w] = 0]
               /\ step' = [step EXCEPT ![w] = "idle"]
               /\ UNCHANGED <<engines, threadLocal, driver>>
       ELSE /\ driver' = [driver EXCEPT ![w] = threadLocal[ThreadSlot(w)]]
            /\ step' = [step EXCEPT ![w] = "get"]
            /\ UNCHANGED <<running, engines, threadLocal, outcome, last_sent>>
    /\ UNCHANGED <<pc, export, processes, web, want_to_read, search_rows, taken,
                   delivered, results, requests_finished, progress, exited,
                   csvfile, page_text, classified, raw_title,
                   simplified, pydantic>>

(***************************************************************************)
(* find_book_at_lib, line 103: driver.get(search_url).  The browser loads  *)
(* the library's page, or the navigation raises and the worker sends       *)
(* (False, exc) for the task.                                              *)
(***************************************************************************)
WorkerGet(w) ==
    /\ WorkersRun
    /\ step[w] = "get"
    /\ \/ /\ engines' = [engines EXCEPT ![driver[w]].page_source =
                             web[search_rows[running[w]].lib_name]]
          /\ step' = [step EXCEPT ![w] = "page"]
          /\ UNCHANGED <<running, driver, outcome, last_sent>>
       \/ /\ Send(running[w], <<FALSE, "NavigationError">>)
          /\ running' = [running EXCEPT ![w] = 0]
          /\ driver' = [driver EXCEPT ![w] = 0]
          /\ step' = [step EXCEPT ![w] = "idle"]
          /\ UNCHANGED engines
    /\ UNCHANGED <<pc, export, processes, web, want_to_read, search_rows, taken,
                   threadLocal, delivered, results, requests_finished, progress,
                   exited, csvfile, page_text, classified, raw_title,
                   simplified, pydantic>>

(***************************************************************************)
(* find_book_at_lib, lines 104-129, after the sleep: the text the browser  *)
(* now shows is read and classified and the worker sends what the call     *)
(* ends in; reading driver.page_source can raise, and the worker then      *)
(* sends (False, exc).                                                     *)
(***************************************************************************)
WorkerFinish(w) ==
    /\ WorkersRun
    /\ step[w] = "page"
    /\ \/ Send(running[w],
               Returned(pydantic, search_rows[running[w]],
                        engines[driver[w]].page_source))
       \/ Send(running[w], <<FALSE, "PageSourceError">>)
    /\ running' = [running EXCEPT ![w] = 0]
    /\ driver' = [driver EXCEPT ![w] = 0]
    /\ step' = [step EXCEPT ![w] = "idle"]
    /\ UNCHANGED <<pc, export, processes, web, want_to_read, search_rows, taken,
                   threadLocal, engines, delivered, results, requests_finished,
                   progress, exited, csvfile, page_text, classified, raw_title,
                   simplified, pydantic>>

(***************************************************************************)
(* pool.imap's iterator yields the items in submission order: the one it   *)
(* can yield next is the item of the first task not yet yielded, once the  *)
(* worker has sent it.                                                     *)
(***************************************************************************)
ReadyUnordered ==
    {i \in Tasks : outcome[i] # NoItem /\ i \notin Range(delivered)}

Ready ==
    {i \in Tasks : i = Len(delivered) + 1 /\ outcome[i] # NoItem}

\* requests_finished += 1
CountedTwice(n) == n + 2

CountedLost(n) == n

Counted(n) == n + 1

(***************************************************************************)
(* main, lines 188-192: one turn of the for loop.  A (True, result) item   *)
(* is appended and counted; a (False, exc) item makes the iterator raise   *)
(* exc in the main thread, which leaves main().                            *)
(***************************************************************************)
Collect ==
    /\ pc = "loop"
    /\ \E i \in Ready :
         /\ delivered' = Append(delivered, i)
         /\ IF outcome[i][1]
            THEN /\ results' = Append(results, outcome[i][2])
                 /\ requests_finished' = Counted(requests_finished)
                 /\ progress' = [progress EXCEPT !.completed = requests_finished']
                 /\ pc' = pc
            ELSE /\ pc' = "aborted"
                 /\ UNCHANGED <<results, requests_finished, progress>>
    /\ UNCHANGED <<export, processes, web, want_to_read, search_rows, taken,
                   running, step, driver, threadLocal, engines, outcome,
                   last_sent, exited, csvfile, page_text, classified, raw_title,
                   simplified, pydantic>>

\* the iterator has yielded an item for every search row
ExhaustedEarly == delivered # << >> \/ search_rows = << >>

Exhausted == Len(delivered) = Len(search_rows)

(***************************************************************************)
(* main, lines 188 and 194: the iterator is exhausted, the for loop ends   *)
(* and pool.close() is called.                                             *)
(***************************************************************************)
Close ==
    /\ pc = "loop"
    /\ Exhausted
    /\ pc' = "closed"
    /\ UNCHANGED <<export, processes, web, want_to_read, search_rows, taken,
                   running, step, driver, threadLocal, engines, outcome, last_sent,
                   delivered, results, requests_finished, progress, exited,
                   csvfile, page_text, classified, raw_title,
                   simplified, pydantic>>

(***************************************************************************)
(* A worker thread of the closed pool ends and its thread-local storage    *)
(* goes with it.  main.py never quits a driver; whether dropping the       *)
(* Driver object terminates the browser is left to the interpreter and the *)
(* browser library, so both outcomes are possible.                         *)
(***************************************************************************)
WorkerExit(w) ==
    /\ pc = "closed"
    /\ w \notin exited
    /\ step[w] = "idle"
    /\ exited' = exited \cup {w}
    /\ threadLocal' = [threadLocal EXCEPT ![ThreadSlot(w)] = 0]
    /\ IF threadLocal[ThreadSlot(w)] = 0
       THEN UNCHANGED engines
       ELSE \/ engines' = [engines EXCEPT ![threadLocal[ThreadSlot(w)]].quits = @ + 1]
            \/ UNCHANGED engines
    /\ UNCHANGED <<pc, export, processes, web, want_to_read, search_rows, taken,
                   running, step, driver, outcome, last_sent, delivered, results,
                   requests_finished, progress, csvfile, page_text, classified, raw_title,
                   simplified, pydantic>>

(***************************************************************************)
(* main, line 195: pool.join() returns when every worker thread has ended. *)
(***************************************************************************)
JoinNoWait ==
    /\ pc = "closed"
    /\ pc' = "joined"
    /\ UNCHANGED <<export, processes, web, want_to_read, search_rows, taken,
                   running, step, driver, threadLocal, engines, outcome,
                   last_sent, delivered, results, requests_finished, progress,
                   exited, csvfile, page_text, classified, raw_title,
                   simplified, pydantic>>

Join ==
    /\ pc = "closed"
    /\ exited = Workers
    /\ pc' = "joined"
    /\ UNCHANGED <<export, processes, web, want_to_read, search_rows, taken,
                   running, step, driver, threadLocal, engines, outcome, last_sent,
                   delivered, results, requests_finished, progress, exited,
                   csvfile, page_text, classified, raw_title,
                   simplified, pydantic>>

(***************************************************************************)
(* main, lines 197-201: results.csv is written, header first.              *)
(***************************************************************************)
CsvHeader ==
    <<"Title", "Author", "Library Name", "Availability", "Audiobook", "Ebook",
      "Search URL">>

WriteCsv ==
    /\ pc = "joined"
    /\ csvfile' = <<CsvHeader>> \o [i \in DOMAIN results |-> to_csv_row(results[i])]
    /\ pc' = "done"
    /\ UNCHANGED <<export, processes, web, want_to_read, search_rows, taken,
                   running, step, driver, threadLocal, engines, outcome, last_sent,
                   delivered, results, requests_finished, progress, exited,
                   page_text, classified, raw_title,
                   simplified, pydantic>>

Next ==
    \/ Generate
    \/ StartPool
    \/ \E w \in Workers : WorkerTake(w)
    \/ \E w \in Workers : WorkerStart(w)
    \/ \E w \in Workers : WorkerGet(w)
    \/ \E w \in Workers : WorkerFinish(w)
    \/ Collect
    \/ Close
    \/ \E w \in Workers : WorkerExit(w)
    \/ Join
    \/ WriteCsv

Spec == Init /\ [][Next]_vars

(***************************************************************************)
(* The task generator on its own: any export of up to MaxListed rows.      *)
(***************************************************************************)
InitGen ==
    /\ pc = "start"
    /\ export \in BoundedSeq(ListedRows, MaxListed)
    /\ processes = 1
    /\ web = SampleWeb
    /\ page_text = << >>
    /\ raw_title = << >>
    /\ pydantic \in Pydantics
    /\ Fresh

SpecGen == InitGen /\ [][Generate]_vars

(***************************************************************************)
(* The classifier on its own: any rendered text of up to MaxPageLen        *)
(* fragments, classified for one search row.                               *)
(***************************************************************************)
ClassifiedRow ==
    SearchRow([Title |-> <<"a">>, Author |-> <<"x">>], libs[1])

InitClassify ==
    /\ pc = "classifier"
    /\ export = << >>
    /\ processes = 1
    /\ web = SampleWeb
    /\ page_text \in BoundedSeq(Fragments, MaxPageLen)
    /\ raw_title = << >>
    /\ pydantic \in Pydantics
    /\ Fresh

ClassifyPage ==
    /\ pc = "classifier"
    /\ classified = << >>
    /\ classified' = <<Returned(pydantic, ClassifiedRow, page_text)>>
    /\ UNCHANGED <<pc, export, processes, web, want_to_read, search_rows, taken,
                   running, step, driver, threadLocal, engines, outcome, last_sent,
                   delivered, results, requests_finished, progress, exited,
                   csvfile, page_text, raw_title, simplified, pydantic>>

SpecClassify == InitClassify /\ [][ClassifyPage]_vars

(***************************************************************************)
(* The title simplifier on its own: any title of up to MaxTitleLen         *)
(* characters, simplified and then simplified again.                       *)
(***************************************************************************)
TitleChars == {"a", " ", ":", "("}

InitSimplify ==
    /\ pc = "simplifier"
    /\ export = << >>
    /\ processes = 1
    /\ web = SampleWeb
    /\ page_text = << >>
    /\ raw_title \in BoundedSeq(TitleChars, MaxTitleLen)
    /\ pydantic \in Pydantics
    /\ Fresh

SimplifyAgain ==
    /\ pc = "simplifier"
    /\ Len(simplified) < 2
    /\ simplified' = Append(simplified,
                            simplify_title(IF simplified = << >> THEN raw_title
                                           ELSE simplified[Len(simplified)]))
    /\ UNCHANGED <<pc, export, processes, web, want_to_read, search_rows, taken,
                   running, step, driver, threadLocal, engines, outcome,
                   last_sent, delivered, results, requests_finished, progress,
                   exited, csvfile, page_text, classified, raw_title, pydantic>>

SpecSimplify == InitSimplify /\ [][SimplifyAgain]_vars

(***************************************************************************)
(* Properties.                                                             *)
(***************************************************************************)

\* the for loop of main() has ended normally
Completed == pc \in {"closed", "joined", "done"}

\* the pool exists: main() is in the loop or past it
PoolStarted == pc \in {"loop", "aborted", "closed", "joined", "done"}

\* the worker has sent an item for task t
Finished(t) == outcome[t] # NoItem

\* the item sent for task t is (False, exc)
Raised(t) == Finished(t) /\ ~outcome[t][1]

\* result r carries the title, author, catalog and search URL of row
Carries(r, row) ==
    /\ r.title = row.title
    /\ r.author = row.author
    /\ r.lib_name = row.lib_name
    /\ r.search_url = row.search_url

\* C1: in a completed run there are as many results as tasks, and every
\* search row has exactly as many results carrying its title, author,
\* catalog and search URL as there are tasks with that row: no task is
\* dropped and none yields two results, for every pool size and interleaving.
C1_OneResultPerTask ==
    Completed =>
        /\ Len(results) = Len(search_rows)
        /\ \A t \in Tasks :
             Cardinality({k \in DOMAIN results : Carries(results[k], search_rows[t])})
               = Cardinality({u \in Tasks : search_rows[u] = search_rows[t]})

\* a run of three tasks on two workers, both with a browser, has completed
C1_Witness ==
    /\ pc = "done"
    /\ processes = 2
    /\ Len(engines) = 2
    /\ Len(search_rows) = 3
    /\ Len(results) = 3

\* C2 (as claimed): a failure inside a task is downgraded to a result, so no
\* task ever yields an exception item and the run is never aborted.
C2_FailureYieldsUnknown ==
    PoolStarted =>
        /\ pc # "aborted"
        /\ \A t \in DOMAIN outcome :
             Finished(t) => outcome[t][1] /\ outcome[t][2].avail \in AvailabilityType

\* C3 (as claimed): results are appended in completion order.  When the
\* item sent most recently is A's, every other finished task finished
\* before A; so once A's result is appended, the result of every
\* later-submitted task B that has finished is appended already.
C3_CompletionOrder ==
    PoolStarted =>
        \A A \in Tasks, B \in Tasks :
            ( /\ A < B
              /\ last_sent = A
              /\ Finished(B) /\ outcome[B][1]
              /\ A \in Range(delivered) /\ outcome[A][1] )
            => B \in Range(delivered)

\* C3 (amended): results are appended, and counted, in submission order: the
\* k-th item the iterator yields is task k's and the k-th result is the one
\* task k's worker sent, so the result of a task B that finished before an
\* earlier-submitted task A is appended after A's.
C3_SubmissionOrder ==
    PoolStarted =>
        /\ \A k \in DOMAIN delivered : delivered[k] = k
        /\ \A k \in DOMAIN results : Finished(k) /\ outcome[k][1] /\ results[k] = outcome[k][2]
        /\ \A A \in Tasks, B \in Tasks :
             (A < B /\ Len(results) >= B) => Len(results) >= A

\* task B finished before the earlier-submitted task A, and A's result is
\* appended while B's is not
C3_Witness ==
    /\ pc = "loop"
    /\ \E A \in Tasks, B \in Tasks :
         /\ A < B
         /\ last_sent = A
         /\ Finished(B) /\ outcome[B][1]
         /\ Len(results) = A
         /\ requests_finished = A

\* C4 (as claimed): once the pool is closed and joined, every browser that
\* was started has been terminated exactly once.
C4_ReleasedExactlyOnce ==
    pc \in {"joined", "done"} =>
        \A e \in DOMAIN engines : engines[e].quits = 1

\* C5: a worker thread starts a browser on its first successful acquisition
\* and reuses it afterwards: no thread owns two browsers, at most
\* `processes` browsers are ever started, a thread's stored driver is its
\* own, and a task runs on the stored driver of the thread executing it.
C5_OneSessionPerWorker ==
    /\ Len(engines) <= processes
    /\ \A w \in Workers :
         /\ Cardinality({e \in DOMAIN engines : engines[e].owner = w}) <= 1
         /\ threadLocal[w] # 0 =>
              threadLocal[w] \in DOMAIN engines /\ engines[threadLocal[w]].owner = w
         /\ step[w] \in {"get", "page"} => driver[w] # 0 /\ driver[w] = threadLocal[w]
    /\ \A v \in Workers, w \in Workers :
         (v # w /\ threadLocal[v] # 0) => threadLocal[v] # threadLocal[w]

\* the only worker executes its third task on the one browser it started
C5_Witness ==
    /\ processes = 1
    /\ running[1] = 3
    /\ step[1] = "page"
    /\ Len(engines) = 1
    /\ driver[1] = 1

\* C6: the availability of a result is decided by the first marker present,
\* in the order "No results.", "Borrow", "Place Hold", and is ERROR when none
\* is; under pydantic 1.x every text gets a result.
C6_PriorityClassifier ==
    /\ (classified # << >> /\ pydantic = "1.x") => classified[1][1]
    /\ (classified # << >> /\ classified[1][1]) =>
        LET r == classified[1][2]
            none == InText("No results.", page_text)
            borrow == InText("Borrow", page_text)
            hold == InText("Place Hold", page_text)
        IN /\ r.avail \in AvailabilityType
           /\ none => r.avail = "DEVOID"
           /\ (~none /\ borrow) => r.avail = "AVAILABLE"
           /\ (~none /\ ~borrow /\ hold) => r.avail = "OWNED"
           /\ (~none /\ ~borrow /\ ~hold) => r.avail = "ERROR"

\* a page with all three availability markers is classified DEVOID
C6_Witness ==
    /\ classified # << >>
    /\ InText("No results.", page_text)
    /\ InText("Borrow", page_text)
    /\ InText("Place Hold", page_text)
    /\ classified[1][1]
    /\ classified[1][2].avail = "DEVOID"

\* C7: in a result audiobook is "True" exactly when "Play Sample" is present
\* and ebook is "True" exactly when "Read Sample" is present, whatever the
\* availability; only under pydantic 2.x, which rejects the flags, there is
\* no result.
C7_FlagsIndependent ==
    /\ (classified # << >> /\ ~classified[1][1]) =>
         pydantic = "2.x" /\ classified[1][2] = "ValidationError"
    /\ (classified # << >> /\ classified[1][1]) =>
        LET r == classified[1][2]
        IN /\ r.audiobook \in {"True", "False"}
           /\ r.ebook \in {"True", "False"}
           /\ r.audiobook = "True" <=> InText("Play Sample", page_text)
           /\ r.ebook = "True" <=> InText("Read Sample", page_text)

\* a page without results that still shows "Play Sample"
C7_Witness ==
    /\ classified # << >>
    /\ classified[1][1]
    /\ classified[1][2].avail = "DEVOID"
    /\ classified[1][2].audiobook = "True"
    /\ classified[1][2].ebook = "False"

\* C8 (as claimed), for runs in which no task raised: the count equals the
\* number of tasks exactly when every task has completed.
C8_TotalExactlyWhenDrained ==
    (PoolStarted /\ \A t \in Tasks : ~Raised(t)) =>
        /\ requests_finished <= Len(search_rows)
        /\ requests_finished = Len(search_rows) <=> \A t \in Tasks : Finished(t)

\* C8 (amended): the count is the number of results collected: it only
\* changes by going up by one together with one appended result, never
\* exceeds the number of completed tasks nor the total, equals the total
\* only when every task has completed, and equals it once the loop has
\* ended.
C8_CountIsCollected ==
    /\ [](PoolStarted =>
            /\ requests_finished = Len(results)
            /\ progress.completed = requests_finished
            /\ progress.total = Len(search_rows)
            /\ requests_finished <= Cardinality({t \in Tasks : Finished(t)})
            /\ requests_finished <= Len(search_rows)
            /\ requests_finished = Len(search_rows) => \A t \in Tasks : Finished(t)
            /\ Completed => requests_finished = Len(search_rows))
    /\ [][ \/ requests_finished' = requests_finished /\ results' = results
           \/ /\ requests_finished' = requests_finished + 1
              /\ Len(results') = Len(results) + 1 ]_vars

\* every task has completed, none raised, and the count is still behind
C8_Witness ==
    /\ pc = "loop"
    /\ Len(search_rows) = 3
    /\ \A t \in Tasks : Finished(t) /\ outcome[t][1]
    /\ requests_finished < Len(search_rows)
    /\ requests_finished > 0

\* what a run over export and web yields, whatever the pool
Expected ==
    [t \in Tasks |-> Classify(search_rows[t], web[search_rows[t].lib_name])]

\* C9: the results of a completed run are, as a multiset, the
\* classifications of the tasks' pages: they depend on the task set and the
\* page contents only, not on the pool size or the interleaving.
C9_SameResultsForAnyPool ==
    Completed =>
        /\ Len(results) = Len(Expected)
        /\ \A t \in Tasks :
             Cardinality({k \in DOMAIN results : results[k] = Expected[t]})
               = Cardinality({u \in Tasks : Expected[u] = Expected[t]})

\* a completed run of the largest pool in which every worker used a browser
C9_Witness ==
    /\ pc = "closed"
    /\ processes = MaxThreads
    /\ Len(engines) = processes
    /\ Len(results) = 3
    /\ \E k \in DOMAIN results : results[k].avail = "DEVOID"
    /\ \E k \in DOMAIN results : results[k].avail = "AVAILABLE"

\* the rows of the export on the "to-read" shelf
ToRead == SelectSeq(export, LAMBDA row : row.Exclusive_Shelf = "to-read")

\* C10: the generator yields one task per to-read row and library, rows in
\* file order and for each row the libraries in table order: T to-read rows
\* give T * 3 tasks, and rows on other shelves give none.
C10_OneTaskPerBookAndLibrary ==
    pc = "generated" =>
        /\ Len(search_rows) = Len(ToRead) * Len(libs)
        /\ Len(want_to_read) = Len(ToRead)
        /\ \A i \in DOMAIN ToRead, j \in DOMAIN libs :
             LET row == search_rows[(i - 1) * Len(libs) + j]
             IN /\ row.lib_name = libs[j].lib_name
                /\ row.search_url[1] = libs[j].lib_url
                /\ row.title = simplify_title(ToRead[i].Title)
                /\ row.author = ToRead[i].Author

\* an export with a currently-reading row and a to-read row gives 3 tasks
C10_Witness ==
    /\ pc = "generated"
    /\ Len(export) = 2
    /\ export[1].Exclusive_Shelf = "currently-reading"
    /\ export[2].Exclusive_Shelf = "to-read"
    /\ Len(search_rows) = 3

\* C11: results.csv is written in one step only, after the loop has
\* collected every task's result and every worker thread of the closed
\* pool has ended, and it then holds the header and one row per task, the
\* k-th row being the fields of the k-th result.
C11_WrittenOnceAtTheEnd ==
    /\ [](csvfile # << >> =>
            /\ pc = "done"
            /\ exited = Workers
            /\ \A t \in Tasks : Finished(t) /\ outcome[t][1]
            /\ Len(csvfile) = 1 + Len(search_rows)
            /\ csvfile[1] = CsvHeader
            /\ \A k \in DOMAIN results :
                 csvfile[k + 1] = <<results[k].title, results[k].author,
                                    results[k].lib_name, results[k].avail,
                                    results[k].audiobook, results[k].ebook,
                                    results[k].search_url>>)
    /\ [](pc = "done" => csvfile # << >>)
    /\ [][csvfile' # csvfile => (csvfile = << >> /\ pc = "joined" /\ pc' = "done")]_vars

\* the file of a run of three tasks on two workers is written
C11_Witness ==
    /\ pc = "done"
    /\ processes = 2
    /\ exited = {1, 2}
    /\ Len(csvfile) = 4

\* C12: simplifying a simplified title changes nothing; the simplified
\* title holds neither ':' nor '(' and neither starts nor ends with
\* whitespace.
C12_SimplifyIdempotent ==
    /\ Len(simplified) >= 1 =>
         LET s == simplified[1]
         IN /\ \A i \in DOMAIN s : s[i] \notin Separators
            /\ s # << >> => (s[1] \notin Whitespace /\ s[Len(s)] \notin Whitespace)
    /\ Len(simplified) = 2 => simplified[2] = simplified[1]

\* a title with leading whitespace and text after a separator, simplified twice
C12_Witness ==
    /\ Len(simplified) = 2
    /\ Len(raw_title) = 4
    /\ raw_title[1] = " "
    /\ raw_title[3] = " "
    /\ raw_title[4] = "("
    /\ simplified[1] = <<"a">>

\* the workers that are inside find_book_at_lib
Busy == {w \in Workers : step[w] # "idle"}

\* task t has been taken off the task queue
Claimed(t) == Finished(t) \/ \E w \in Workers : running[w] = t

\* C13: two workers inside find_book_at_lib never hold the same driver, no
\* browser is in use by two workers, and a busy worker executes exactly one
\* task, so the tasks in execution are as many as the busy workers.
C13_SessionsNotShared ==
    /\ \A v \in Busy, w \in Busy :
         (v # w /\ driver[v] # 0) => driver[v] # driver[w]
    /\ \A w \in Workers : driver[w] # 0 <=> step[w] \in {"get", "page"}
    /\ \A e \in DOMAIN engines : Cardinality({w \in Busy : driver[w] = e}) <= 1
    /\ \A w \in Workers : (step[w] = "idle") <=> (running[w] = 0)
    /\ PoolStarted =>
         /\ \A w \in Busy : running[w] \in Tasks /\ ~Finished(running[w])
         /\ Cardinality({t \in Tasks : t <= taken /\ ~Finished(t)}) = Cardinality(Busy)

\* two workers read the pages of two tasks, each in its own browser
C13_Witness ==
    /\ processes = 2
    /\ step[1] = "page"
    /\ step[2] = "page"
    /\ driver[1] # driver[2]
    /\ running[1] # running[2]
    /\ taken = 3

\* C14: a task taken off the queue is executed by one worker, a task is never
\* handed out twice, and once its item is sent (a result or an exception)
\* the task is not executed again and its item never changes. When the loop
\* has ended, every task has been taken and has sent its one item.
C14_ExecutedOnce ==
    /\ [](PoolStarted =>
            \A t \in Tasks :
                LET runners == {w \in Workers : running[w] = t}
                IN /\ Cardinality(runners) <= 1
                   /\ (t <= taken) <=> (runners # {} \/ Finished(t))
                   /\ ~(runners # {} /\ Finished(t)))
    /\ [](pc \in {"closed", "joined", "done"} =>
            /\ taken = Len(search_rows)
            /\ \A t \in Tasks : Finished(t) /\ t \in Range(delivered))
    /\ [][PoolStarted =>
            /\ \A t \in Tasks : Finished(t) => outcome'[t] = outcome[t]
            /\ \A w \in Workers :
                 (running'[w] # running[w] /\ running'[w] # 0) =>
                     /\ ~Claimed(running'[w])
                     /\ \A v \in Workers : v # w => running'[v] # running'[w] ]_vars

\* a task raised, and every task has been executed, none of them again
C14_Witness ==
    /\ pc = "loop"
    /\ taken = 3
    /\ \E t \in Tasks : Raised(t) /\ outcome[t][2] = "NavigationError"
    /\ \A t \in Tasks : Finished(t)
    /\ Busy = {}

\* C16: results and requests_finished change only in a turn of the main
\* thread's loop, which appends one result and adds one to the count while
\* no worker thread's state changes; no increment is lost: the count is the
\* number of results, which is the number of result items yielded.
C16_SingleAggregator ==
    /\ [](PoolStarted =>
            /\ requests_finished = Len(results)
            /\ Len(results) =
                 Cardinality({k \in DOMAIN delivered : outcome[delivered[k]][1]}))
    /\ [][(results' # results \/ requests_finished' # requests_finished) =>
            /\ pc = "loop"
            /\ Len(delivered') = Len(delivered) + 1
            /\ Len(results') = Len(results) + 1
            /\ SubSeq(results', 1, Len(results)) = results
            /\ requests_finished' = requests_finished + 1
            /\ UNCHANGED <<taken, running, step, driver, threadLocal, engines,
                           outcome, last_sent, exited>> ]_vars

\* the main thread has counted a result while both workers are busy
C16_Witness ==
    /\ pc = "loop"
    /\ processes = 2
    /\ Busy = {1, 2}
    /\ requests_finished = 1
    /\ Len(results) = 1

\* C17: the tasks taken off the queue are always the oldest ones: a task is
\* claimed only when every earlier task is, a worker that starts a task
\* starts the oldest unclaimed one, and a worker gives a task up only by
\* sending its item.
C17_FifoDrain ==
    /\ [](PoolStarted =>
            \A i \in Tasks, j \in Tasks : (i < j /\ Claimed(j)) => Claimed(i))
    /\ [][PoolStarted =>
            /\ \A t \in Tasks : Claimed(t) => Claimed(t)'
            /\ \A t \in Tasks :
                 (~Claimed(t) /\ Claimed(t)') => \A i \in 1..(t - 1) : Claimed(i)
            /\ \A w \in Workers :
                 (running[w] # 0 /\ running'[w] # running[w]) =>
                     outcome'[running[w]] # NoItem ]_vars

\* the first two tasks are executed, the third waits
C17_Witness ==
    /\ pc = "loop"
    /\ processes = 2
    /\ Len(search_rows) = 3
    /\ taken = 2
    /\ {running[1], running[2]} = {1, 2}
    /\ step[1] = "page"
    /\ step[2] = "page"
    /\ ~Claimed(3)

\* C19: the k-th result collected is the k-th task's, an item is yielded
\* only after the items of all earlier tasks, so a finished task waits for
\* every earlier task and the count can be behind the number of finished
\* tasks; the k-th row of results.csv is the k-th task's.
C19_CollectedInSubmissionOrder ==
    PoolStarted =>
        /\ \A k \in DOMAIN results : Carries(results[k], search_rows[k])
        /\ \A k \in DOMAIN delivered :
             \A u \in 1..(delivered[k] - 1) : \E j \in 1..(k - 1) : delivered[j] = u
        /\ \A t \in Tasks :
             (Finished(t) /\ \E u \in 1..(t - 1) : ~Finished(u)) =>
                 t \notin Range(delivered)
        /\ requests_finished <= Cardinality({t \in Tasks : Finished(t)})
        /\ csvfile # << >> =>
             \A k \in Tasks :
                 /\ csvfile[k + 1][1] = search_rows[k].title
                 /\ csvfile[k + 1][2] = search_rows[k].author
                 /\ csvfile[k + 1][3] = search_rows[k].lib_name
                 /\ csvfile[k + 1][7] = search_rows[k].search_url

\* the second and third task have results, the first is still executed, and
\* nothing is counted
C19_Witness ==
    /\ pc = "loop"
    /\ Len(search_rows) = 3
    /\ ~Finished(1)
    /\ Finished(2) /\ outcome[2][1]
    /\ Finished(3) /\ outcome[3][1]
    /\ requests_finished = 0
    /\ results = << >>

\* the workers whose driver.get has not returned while every other task has
\* sent its item and the main thread's next(iterator) has nothing to yield
Hung ==
    {w \in Workers :
        /\ step[w] = "get"
        /\ \A t \in Tasks \ {running[w]} : Finished(t)
        /\ Ready = {}}

\* C15: when a pool of two or more workers has one fetch that does not
\* return, every other task has been executed and its result has reached
\* the aggregator.
C15_HangStallsOneWorkerOnly ==
    (pc = "loop" /\ processes >= 2) =>
        \A w \in Hung :
            \A t \in Tasks \ {running[w]} :
                /\ Finished(t)
                /\ outcome[t][1] => /\ t \in Range(delivered)
                                    /\ \E k \in DOMAIN results :
                                         Carries(results[k], search_rows[t])

\* C18: a run that can take no further step has consumed the queue, every
\* worker has exited, the pool is joined and results.csv is written.
C18_RunTerminates ==
    (~ENABLED Next) =>
        /\ pc = "done"
        /\ \A t \in Tasks : Finished(t)
        /\ exited = Workers
        /\ csvfile # << >>

=============================================================================
